---- MODULE Spec2Model ----
(***************************************************************************)
(* The MonteCarloSimulator component: its React state, the Run button, the *)
(* number and slider inputs, the progress interval started by              *)
(* runSimulation, the updaters its callback queues (the one that sees      *)
(* progress 100 calls the engine) and the histogram derived from the       *)
(* stored result.                                                          *)
(*                                                                         *)
(* Numbers.  Input fields hold whole hours.  A sampled duration is the     *)
(* rational lo + (u / RandDenom) * (hi - lo) and is stored as the integer  *)
(* numerator over the denominator RandDenom, so every entry of             *)
(* result.durations is in units of 1 / RandDenom hour.  RandDenom is a     *)
(* power of two, so these values are doubles.  The quantities the          *)
(* histogram computes from them (binSize, binStart, binEnd) are doubles    *)
(* that are not such fractions; they are kept exactly, as multiples of     *)
(* 2^-64, and every operation of the code on them is rounded as IEEE 754   *)
(* rounds it (to 53 significant bits, ties to even).                       *)
(***************************************************************************)
EXTENDS Integers, Sequences, FiniteSets, TLC

VARIABLES taskA, taskB, availableHours, trials, inputError, result,
          isAnimating, animationProgress,
          intervals, pending, mounted, engineCalls, lastCall, runs, edits

vars == <<edits, runs, engineCalls, animationProgress, isAnimating, mounted,
          inputError, taskA, taskB, availableHours, trials,
          intervals, pending, lastCall, result>>

(*************************** bounds of the model ***************************)
\* edits of input fields in one behaviour
MaxEdits == 1
\* accepted runs in one behaviour (the mount-time run included)
MaxRuns == 2
\* slider positions above its minimum that the model moves the slider to
MaxSliderSteps == 0
\* a uniform draw is u / RandDenom with u in 0..RandDenom, RandDenom = 2^RandBits
RandBits == 2
\* seeds of the random source are 0..MaxSeed
MaxSeed == 1
\* updaters of setAnimationProgress queued and not yet processed by React
MaxPending == 2

\* A power of two: the draws and their sums are then binary fractions, which
\* doubles hold exactly.
RandDenom == 2 ^ RandBits

(**************************** program constants ****************************)
DEFAULT_TASK_A == [name |-> "Task A", minDuration |-> 2, maxDuration |-> 4]
DEFAULT_TASK_B == [name |-> "Task B", minDuration |-> 3, maxDuration |-> 6]
DEFAULT_AVAILABLE_HOURS == 8
DEFAULT_TRIALS == 1000
MinTrials == 100
MaxTrials == 10000
SliderStep == 100
ProgressStep == 4
ProgressDone == 100
numBins == 10

\* result before the first engine call (useState<SimulationResult | null>(null))
NoResult == [null |-> TRUE]
\* lastCall before the first engine call
NoCall == [null |-> TRUE]

Min(a, b) == IF a <= b THEN a ELSE b

SetMin(S) == CHOOSE x \in S : \A y \in S : x <= y

SetMax(S) == CHOOSE x \in S : \A y \in S : y <= x

\* The function f as the table of its values, each computed once.
Tabulated(f) == <<>> @@ f

(************************** input validation *******************************)
\* validateInputs without its two min > max checks.
validateInputsNoOrderCheck(a, b, hours, n) ==
    IF a.minDuration < 0 \/ a.maxDuration < 0
      THEN "Task A durations must be positive"
    ELSE IF b.minDuration < 0 \/ b.maxDuration < 0
      THEN "Task B durations must be positive"
    ELSE IF hours <= 0
      THEN "Available hours must be positive"
    ELSE IF n < MinTrials \/ n > MaxTrials
      THEN "Number of trials must be between 100 and 10,000"
    ELSE ""

\* The message validateInputs passes to setInputError; "" when it returns true.
validateInputs(a, b, hours, n) ==
    IF a.minDuration < 0 \/ a.maxDuration < 0
      THEN "Task A durations must be positive"
    ELSE IF b.minDuration < 0 \/ b.maxDuration < 0
      THEN "Task B durations must be positive"
    ELSE IF a.minDuration > a.maxDuration
      THEN "Task A minimum duration must be less than or equal to maximum"
    ELSE IF b.minDuration > b.maxDuration
      THEN "Task B minimum duration must be less than or equal to maximum"
    ELSE IF hours <= 0
      THEN "Available hours must be positive"
    ELSE IF n < MinTrials \/ n > MaxTrials
      THEN "Number of trials must be between 100 and 10,000"
    ELSE ""


(************************** the simulation engine **************************)
\* The n-th draw of the random source seeded with seed: u in 0..RandDenom,
\* standing for the real u / RandDenom in [0, 1].
uniform(seed, n) ==
    ((((n + seed) % 1009) * ((n + seed) % 1009) * 131 + n) % 1009) % (RandDenom + 1)

\* lo + (u / RandDenom) * (hi - lo), as a numerator over RandDenom.
sampleDuration(task, u) ==
    RandDenom * task.minDuration + u * (task.maxDuration - task.minDuration)

\* run(taskA, taskB, threshold, trialCount) with the random source made explicit.
\* Trial i takes draw 2i-1 for task A and draw 2i for task B.
runMonteCarloSimulation(a, b, threshold, trialCount, seed) ==
    LET durations == [i \in 1..trialCount |->
                        sampleDuration(a, uniform(seed, 2 * i - 1))
                      + sampleDuration(b, uniform(seed, 2 * i))]
        successCount == Cardinality({i \in 1..trialCount :
                                       durations[i] <= RandDenom * threshold})
    IN  [durations    |-> durations,
         successCount |-> successCount,
         totalTrials  |-> trialCount,
         probability  |-> [num |-> successCount, den |-> trialCount],
         threshold    |-> threshold]

(************************** double arithmetic ******************************)
\* A non-negative double d with d < 256 whose unit in the last place is at
\* least 2^-64 is the integer d * 2^64, written <<l2, l1, l0>> in base Limb
\* (l2 * Limb^2 + l1 * Limb + l0).  binSize is such a double whenever
\* range >= 2^-7, which holds for RandBits <= 7.
Limb == 2 ^ 24

\* The double of a number of hours given as a numerator over RandDenom.
DoubleOfDuration(num) == <<num * 2 ^ (16 - RandBits), 0, 0>>

\* The double of a whole number of hours.
DoubleOfHours(hours) == <<hours * 2 ^ 16, 0, 0>>

DoubleZero == <<0, 0, 0>>

\* Limbs brought back below Limb.
Carry(l2, l1, l0) ==
    LET n1 == l1 + (l0 \div Limb)
    IN  <<l2 + (n1 \div Limb), n1 % Limb, l0 % Limb>>

\* a + b and a * k (k a small natural), exact.
ExactSum(a, b) == Carry(a[1] + b[1], a[2] + b[2], a[3] + b[3])

ExactTimes(a, k) == Carry(a[1] * k, a[2] * k, a[3] * k)

\* a - b for a >= b, exact.
ExactDifference(a, b) ==
    LET d0 == a[3] - b[3]
        b0 == IF d0 < 0 THEN 1 ELSE 0
        d1 == a[2] - b[2] - b0
        b1 == IF d1 < 0 THEN 1 ELSE 0
    IN  <<a[1] - b[1] - b1, d1 + b1 * Limb, d0 + b0 * Limb>>

\* a <= b
DoubleLeq(a, b) ==
    \/ a[1] < b[1]
    \/ a[1] = b[1] /\ a[2] < b[2]
    \/ a[1] = b[1] /\ a[2] = b[2] /\ a[3] <= b[3]

\* floor(a / k) and whether a / k has a fraction, for a small natural k.
ExactQuotient(a, k) ==
    LET r2 == a[1] % k
        n1 == r2 * Limb + a[2]
        r1 == n1 % k
        n0 == r1 * Limb + a[3]
    IN  [floor |-> <<a[1] \div k, n1 \div k, n0 \div k>>, inexact |-> n0 % k # 0]

\* The number of bits of n, 0 <= n < Limb.
BitLength(n) == Cardinality({k \in 0..23 : 2 ^ k <= n})

\* The double nearest to the exact value a (plus a fraction below 2^-64 when
\* inexact), ties to even: a has 48 + BitLength(a[1]) bits, of which the
\* leading 53 are kept.
RoundToDouble(a, inexact) ==
    LET drop == BitLength(a[1]) - 5
    IN  IF drop <= 0 THEN a
        ELSE LET unit == 2 ^ drop
                 kept == a[3] \div unit
                 rest == a[3] % unit
                 up   == \/ 2 * rest > unit
                         \/ 2 * rest = unit /\ (inexact \/ kept % 2 = 1)
             IN  Carry(a[1], a[2], (kept + (IF up THEN 1 ELSE 0)) * unit)

\* Math.floor(x / y) >= n in doubles, for doubles x, y > 0 and a whole
\* n in 1..15: the double x / y is at least n exactly when the real x / y is
\* at least n - g / 2, g the gap between n and the double below it (2^-53
\* times the power of two at or below n, halved when n is that power). So
\* either n * y <= x, or n * y - x <= y * g / 2.
FloorOfQuotientAtLeast(x, y, n) ==
    LET ny    == ExactTimes(y, n)
        e     == BitLength(n) - 1
        shift == (53 - e) + (IF 2 ^ e = n THEN 1 ELSE 0)
    IN  \/ DoubleLeq(ny, x)
        \/ DoubleLeq(ExactDifference(ny, x), <<0, 0, y[1] \div (2 ^ (shift - 48))>>)

(****************************** the histogram ******************************)
\* const binSize = range / numBins, range a numerator over RandDenom.
binSizeOf(range) ==
    LET q == ExactQuotient(DoubleOfDuration(range), numBins)
    IN  RoundToDouble(q.floor, q.inexact)

\* binSize is 0 exactly when range is 0; every duration then equals
\* minDuration and (duration - minDuration) / binSize is 0 / 0 = NaN.
\* Math.floor(NaN) and Math.min(NaN, numBins - 1) are NaN, and bins[NaN]++
\* touches none of the numBins counters.
binIndexIsNaN(duration, minDuration, binSize) ==
    binSize = DoubleZero /\ duration = minDuration

\* Math.floor((duration - minDuration) / binSize) for binSize > 0, counted up
\* to numBins (the quotient of the largest duration is about numBins);
\* duration - minDuration is exact.
floorOfQuotient(duration, minDuration, binSize) ==
    Cardinality({n \in 1..numBins :
                   FloorOfQuotientAtLeast(DoubleOfDuration(duration - minDuration),
                                          binSize, n)})

\* Math.min(Math.floor((duration - minDuration) / binSize), numBins - 1)
binIndex(duration, minDuration, binSize) ==
    Min(floorOfQuotient(duration, minDuration, binSize), numBins - 1)

\* const binStart = minDuration + index * binSize
binStartOf(minDuration, index, binSize) ==
    RoundToDouble(ExactSum(DoubleOfDuration(minDuration),
                           RoundToDouble(ExactTimes(binSize, index), FALSE)),
                  FALSE)

\* const binEnd = binStart + binSize
binEndOf(binStart, binSize) == RoundToDouble(ExactSum(binStart, binSize), FALSE)

\* isSuccess: binEnd <= result.threshold
binIsSuccess(binEnd, threshold) == DoubleLeq(binEnd, DoubleOfHours(threshold))

\* The array getHistogramData returns, bins indexed 0..numBins-1; [] (here
\* the empty function) without a result.  binStart and binEnd are the doubles
\* the range label is printed from; percentage is count / totalTrials * 100,
\* kept as the rational num / den.
getHistogramData(res) ==
    IF res = NoResult THEN <<>>
    ELSE
    LET n           == Len(res.durations)
        values      == {res.durations[k] : k \in 1..n}
        minDuration == SetMin(values)
        maxDuration == SetMax(values)
        range       == maxDuration - minDuration
        binSize     == binSizeOf(range)
        indexOf == Tabulated([duration \in values |->
                      IF binIndexIsNaN(duration, minDuration, binSize)
                        THEN {}
                        ELSE {binIndex(duration, minDuration, binSize)}])
        bins == Tabulated([i \in 0..(numBins - 1) |->
                   Cardinality({k \in 1..n : i \in indexOf[res.durations[k]]})])
    IN  Tabulated([index \in 0..(numBins - 1) |->
           LET binStart == binStartOf(minDuration, index, binSize)
               binEnd   == binEndOf(binStart, binSize)
           IN  [binStart   |-> binStart,
                binEnd     |-> binEnd,
                count      |-> bins[index],
                percentage |-> [num |-> bins[index] * 100,
                                den |-> res.totalTrials],
                isSuccess  |-> binIsSuccess(binEnd, res.threshold)]])

histogramData == getHistogramData(result)

(***************************** the component *******************************)
\* React as a production build runs it.  The mount effect runs once, before
\* any event is handled.  The state updates an event handler or the effect
\* makes are committed together before the next event or timer callback.  A
\* call of the interval callback only queues its updater function: React
\* invokes the queued updaters, in order and each with the value the one
\* before it returned, when it next processes the queue of animationProgress
\* (at once when nothing is queued, else at the next render), and until then
\* the timer stays live and may fire again.  A queued updater is invoked once.
\* What the closures of one render hold: runSimulation, validateInputs and
\* the interval callback created by it all read the state of that render.
Closure(a, b, hours, n) ==
    [taskA |-> a, taskB |-> b, availableHours |-> hours, trials |-> n]

\* const interval = setInterval(...): the timer id and what its callback closes over.
Timer(id, c) == [id |-> id, closure |-> c]

Init ==
    /\ taskA = DEFAULT_TASK_A
    /\ taskB = DEFAULT_TASK_B
    /\ availableHours = DEFAULT_AVAILABLE_HOURS
    /\ trials = DEFAULT_TRIALS
    /\ inputError = ""
    /\ result = NoResult
    /\ isAnimating = FALSE
    /\ animationProgress = 0
    /\ intervals = <<>>
    /\ pending = <<>>
    /\ mounted = FALSE
    /\ engineCalls = 0
    /\ lastCall = NoCall
    /\ runs = 0
    /\ edits = 0

\* runSimulation without the early return on a failed validation.
runSimulationNoEarlyReturn(c) ==
    /\ inputError' = validateInputs(c.taskA, c.taskB, c.availableHours, c.trials)
    /\ isAnimating' = TRUE
    /\ animationProgress' = 0
    /\ intervals' = Append(intervals, Timer(runs + 1, c))
    /\ runs' = runs + 1
    /\ UNCHANGED <<taskA, taskB, availableHours, trials, result, pending,
                   engineCalls, lastCall, edits>>

\* runSimulation of the render whose state is c.
runSimulation(c) ==
    LET error == validateInputs(c.taskA, c.taskB, c.availableHours, c.trials)
    IN  /\ inputError' = error
        /\ IF error # ""
             THEN UNCHANGED <<isAnimating, animationProgress, intervals, runs>>
             ELSE /\ isAnimating' = TRUE
                  /\ animationProgress' = 0
                  /\ intervals' = Append(intervals, Timer(runs + 1, c))
                  /\ runs' = runs + 1
        /\ UNCHANGED <<taskA, taskB, availableHours, trials, result, pending,
                       engineCalls, lastCall, edits>>

\* useEffect(() => { runSimulation(); }, []) after the first render.
Mount ==
    /\ ~mounted
    /\ mounted' = TRUE
    /\ runSimulation(Closure(taskA, taskB, availableHours, trials))

\* The Run button cannot be clicked while it is rendered disabled.
runButtonNeverDisabled == FALSE

\* disabled={isAnimating}
runButtonDisabled == isAnimating

\* <Button onClick={runSimulation} disabled={isAnimating}>
RunClick ==
    /\ mounted
    /\ ~runButtonDisabled
    /\ runs < MaxRuns
    /\ runSimulation(Closure(taskA, taskB, availableHours, trials))
    /\ UNCHANGED mounted

\* One call of the callback of intervals[k]: setAnimationProgress(prev => ...)
\* queues the updater, which carries the timer id and the closure of its run.
TickOf(k) ==
    /\ Len(pending) < MaxPending
    /\ pending' = Append(pending, intervals[k])
    /\ UNCHANGED <<taskA, taskB, availableHours, trials, inputError, result,
                   isAnimating, animationProgress, intervals, mounted,
                   engineCalls, lastCall, runs, edits>>

Tick == \E k \in 1..Len(intervals) : TickOf(k)

progressCompleteEarly(prev) == prev >= ProgressDone - ProgressStep

\* if (prev >= 100)
progressComplete(prev) == prev >= ProgressDone

\* What the updater returns: 100 from its if branch, else prev + 4.
updaterReturns(prev) ==
    IF progressComplete(prev) THEN ProgressDone ELSE prev + ProgressStep

\* prev of the j-th queued updater.
RECURSIVE prevOf(_)
prevOf(j) ==
    IF j = 1 THEN animationProgress ELSE updaterReturns(prevOf(j - 1))

\* The queued updaters that take the if branch.
finishing == {j \in 1..Len(pending) : progressComplete(prevOf(j))}

callbackClosureLive(j) == Closure(taskA, taskB, availableHours, trials)

\* taskA, taskB, availableHours and trials as the j-th queued updater reads
\* them: the values of the render whose runSimulation created its interval.
callbackClosure(j) == pending[j].closure

\* React processes the queue of animationProgress.  Every updater that takes
\* the if branch clears its interval, calls setIsAnimating(false), invokes the
\* engine and calls setResult; the last setResult is the one committed.
Render ==
    /\ pending # <<>>
    /\ pending' = <<>>
    /\ animationProgress' = updaterReturns(prevOf(Len(pending)))
    /\ IF finishing = {}
         THEN UNCHANGED <<result, isAnimating, intervals, engineCalls, lastCall>>
         ELSE LET c == callbackClosure(SetMax(finishing))
              IN  /\ intervals' =
                        SelectSeq(intervals,
                                  LAMBDA t : \A j \in finishing : pending[j].id # t.id)
                  /\ isAnimating' = FALSE
                  /\ \E seed \in 0..MaxSeed :
                        result' = runMonteCarloSimulation(
                                    c.taskA, c.taskB, c.availableHours, c.trials, seed)
                  /\ engineCalls' = engineCalls + Cardinality(finishing)
                  /\ lastCall' = c
    /\ UNCHANGED <<taskA, taskB, availableHours, trials, inputError,
                   mounted, runs, edits>>

(******************************* the inputs ********************************)
\* What is typed into a number field: <<>> is text parseFloat reads as NaN,
\* <<v>> is text it reads as v.
TypedTexts == {<<>>, <<-1>>}

TypedHours == {<<>>, <<7>>}

\* parseFloat(e.target.value) || 0
parseFloatOrZero(text) ==
    IF text = <<>> THEN 0 ELSE IF text[1] = 0 THEN 0 ELSE text[1]

\* The values the slider reports: min 100, max 10000, step 100.
SliderValues ==
    {v \in {MinTrials + k * SliderStep : k \in 0..MaxSliderSteps} : v <= MaxTrials}

Edited ==
    /\ mounted
    /\ edits < MaxEdits
    /\ edits' = edits + 1
    /\ UNCHANGED <<inputError, result, isAnimating, animationProgress,
                   intervals, pending, mounted, engineCalls, lastCall, runs>>

EditTaskAMin ==
    /\ \E text \in TypedTexts :
         taskA' = [taskA EXCEPT !.minDuration = parseFloatOrZero(text)]
    /\ Edited
    /\ UNCHANGED <<taskB, availableHours, trials>>

EditTaskAMax ==
    /\ \E text \in TypedTexts :
         taskA' = [taskA EXCEPT !.maxDuration = parseFloatOrZero(text)]
    /\ Edited
    /\ UNCHANGED <<taskB, availableHours, trials>>

EditTaskBMin ==
    /\ \E text \in TypedTexts :
         taskB' = [taskB EXCEPT !.minDuration = parseFloatOrZero(text)]
    /\ Edited
    /\ UNCHANGED <<taskA, availableHours, trials>>

EditTaskBMax ==
    /\ \E text \in TypedTexts :
         taskB' = [taskB EXCEPT !.maxDuration = parseFloatOrZero(text)]
    /\ Edited
    /\ UNCHANGED <<taskA, availableHours, trials>>

EditAvailableHours ==
    /\ \E text \in TypedHours :
         availableHours' = parseFloatOrZero(text)
    /\ Edited
    /\ UNCHANGED <<taskA, taskB, trials>>

EditTrials ==
    /\ \E v \in SliderValues : trials' = v
    /\ Edited
    /\ UNCHANGED <<taskA, taskB, availableHours>>

Next ==
    \/ Mount
    \/ RunClick
    \/ Tick
    \/ Render
    \/ EditTaskAMin
    \/ EditTaskAMax
    \/ EditTaskBMin
    \/ EditTaskBMax
    \/ EditAvailableHours
    \/ EditTrials

Spec == Init /\ [][Next]_vars

\* setInterval(..., 50): while an interval exists its callback keeps being
\* called every 50 ms, and React processes a non-empty queue in a task of its
\* own, so a tick and a render that stay possible are eventually taken.
LiveSpec == Init /\ [][Next]_vars /\ WF_vars(Tick) /\ WF_vars(Render)

(*********** the engine and the histogram over a range of inputs ***********)
HistDurations == {0, 6, 7}

HistHours == {0, 7, 13}

\* The component after the runs before the last one allowed have finished,
\* the latest of them made with the defaults and the seed 0, and each of the
\* six fields then edited once, to any of the enumerated inputs.
HistInit ==
    /\ taskA \in {[name |-> "Task A", minDuration |-> lo, maxDuration |-> hi] :
                     lo \in HistDurations, hi \in HistDurations}
    /\ taskB \in {[name |-> "Task B", minDuration |-> lo, maxDuration |-> hi] :
                     lo \in HistDurations, hi \in HistDurations}
    /\ availableHours \in HistHours
    /\ trials \in SliderValues
    /\ inputError = ""
    /\ result = runMonteCarloSimulation(DEFAULT_TASK_A, DEFAULT_TASK_B,
                                        DEFAULT_AVAILABLE_HOURS, DEFAULT_TRIALS, 0)
    /\ isAnimating = FALSE
    /\ animationProgress = ProgressDone
    /\ intervals = <<>>
    /\ pending = <<>>
    /\ mounted = TRUE
    /\ engineCalls = MaxRuns - 1
    /\ lastCall = Closure(DEFAULT_TASK_A, DEFAULT_TASK_B,
                          DEFAULT_AVAILABLE_HOURS, DEFAULT_TRIALS)
    /\ runs = MaxRuns - 1
    /\ edits = 6

HistNext == RunClick \/ Tick \/ Render

HistSpec == HistInit /\ [][HistNext]_vars

(******************************** claims ***********************************)
ValidParameters(c) ==
    /\ 0 <= c.taskA.minDuration /\ c.taskA.minDuration <= c.taskA.maxDuration
    /\ 0 <= c.taskB.minDuration /\ c.taskB.minDuration <= c.taskB.maxDuration
    /\ c.availableHours > 0
    /\ MinTrials <= c.trials /\ c.trials <= MaxTrials

RECURSIVE SumCounts(_, _)
SumCounts(h, i) == IF i < 0 THEN 0 ELSE h[i].count + SumCounts(h, i - 1)

DurationValues == {result.durations[k] : k \in 1..Len(result.durations)}

\* A sample of the given duration is counted in bin i, the durations of the
\* result having minimum minDuration and the bins the width binSize.
CountedIn(duration, i, minDuration, binSize) ==
    /\ ~binIndexIsNaN(duration, minDuration, binSize)
    /\ binIndex(duration, minDuration, binSize) = i

\* C2: the bin counts of the histogram of every result sum to exactly
\* totalTrials (each sample is counted in exactly one of the numBins bins).
C2_BinCountsSumToTotalTrials ==
    result # NoResult =>
        SumCounts(histogramData, numBins - 1) = result.totalTrials

\* C3: when all durations of the result are identical, bin 0 counts every
\* sample (totalTrials) and every other bin counts none.
C3_DegenerateAllInBinZero ==
    (result # NoResult /\ Cardinality(DurationValues) = 1) =>
        /\ histogramData[0].count = result.totalTrials
        /\ \A i \in 1..(numBins - 1) : histogramData[i].count = 0

\* C4: a bin is marked isSuccess exactly when its end, minD + (index + 1) *
\* binSize with binSize = (maxD - minD) / numBins, is <= threshold, so a bin
\* straddling the threshold is failing; every sample counted in a bin marked
\* isSuccess is itself <= threshold; and the bins below a bin marked isSuccess
\* are marked isSuccess too.  (Ends and threshold over numBins * RandDenom.)
C4_SuccessBinsHoldOnlySuccesses ==
    result # NoResult =>
        LET h    == histogramData
            minD == SetMin(DurationValues)
            rng  == SetMax(DurationValues) - minD
            size == binSizeOf(rng)
            thr  == numBins * RandDenom * result.threshold
        IN  \A i \in 0..(numBins - 1) :
               /\ h[i].isSuccess <=> (numBins * minD + (i + 1) * rng <= thr)
               /\ (numBins * minD + i * rng < thr /\ thr < numBins * minD + (i + 1) * rng)
                     => ~h[i].isSuccess
               /\ \A j \in 0..(i - 1) : h[i].isSuccess => h[j].isSuccess
               /\ h[i].isSuccess =>
                     \A duration \in DurationValues :
                         CountedIn(duration, i, minD, size) =>
                             duration <= RandDenom * result.threshold

\* C5: the result of an engine call made with validated inputs has exactly
\* trialCount = totalTrials durations, each within [taskA.min + taskB.min,
\* taskA.max + taskB.max]; successCount is the number of durations <= threshold
\* and probability = successCount / totalTrials lies in [0, 1].
C5_ResultShape ==
    result # NoResult =>
        LET c == lastCall
        IN  /\ Len(result.durations) = c.trials
            /\ result.totalTrials = c.trials
            /\ \A k \in 1..Len(result.durations) :
                  /\ RandDenom * (c.taskA.minDuration + c.taskB.minDuration)
                        <= result.durations[k]
                  /\ result.durations[k]
                        <= RandDenom * (c.taskA.maxDuration + c.taskB.maxDuration)
            /\ result.successCount =
                  Cardinality({k \in 1..Len(result.durations) :
                                 result.durations[k] <= RandDenom * c.availableHours})
            /\ result.successCount <= result.totalTrials
            /\ result.probability.num = result.successCount
            /\ result.probability.den = result.totalTrials
            /\ result.probability.den > 0
            /\ 0 <= result.probability.num
            /\ result.probability.num <= result.probability.den

\* A result, of a run started by a Run click, in which some trials succeed
\* and some fail.
C5_Witness ==
    /\ result # NoResult
    /\ runs = MaxRuns
    /\ engineCalls >= runs
    /\ 0 < result.successCount
    /\ result.successCount < result.totalTrials

CurrentInputs == Closure(taskA, taskB, availableHours, trials)

CurrentInputsValid ==
    validateInputs(taskA, taskB, availableHours, trials) = ""

\* C1: every invocation of runMonteCarloSimulation receives parameters with
\* 0 <= minDuration <= maxDuration for both tasks, threshold > 0 and
\* 100 <= trials <= 10000, whatever was edited before or during the animation.
C1_EngineReceivesValidParameters ==
    [][engineCalls' # engineCalls =>
          /\ \A j \in finishing : ValidParameters(callbackClosure(j))
          /\ ValidParameters(lastCall')]_vars

\* The engine has been invoked for a run during whose animation the fields
\* were edited to values the validator rejects.
C1_Witness ==
    /\ engineCalls = runs
    /\ lastCall # NoCall
    /\ lastCall # CurrentInputs
    /\ ~CurrentInputsValid
    /\ inputError = ""

\* C6: a run request the validator rejects sets a non-empty inputError, starts
\* no interval, invokes no engine call and leaves result, isAnimating and
\* animationProgress as they were.
C6_RejectedRunChangesOnlyInputError ==
    [][((Mount \/ RunClick) /\ ~CurrentInputsValid) =>
          /\ inputError' # ""
          /\ intervals' = intervals
          /\ pending' = pending
          /\ engineCalls' = engineCalls
          /\ lastCall' = lastCall
          /\ result' = result
          /\ isAnimating' = isAnimating
          /\ animationProgress' = animationProgress]_vars

\* A Run click was rejected: an error is shown next to the earlier result and
\* no run is in flight.
C6_Witness ==
    /\ inputError # ""
    /\ ~CurrentInputsValid
    /\ ~isAnimating
    /\ intervals = <<>>
    /\ result # NoResult
    /\ engineCalls = runs

\* C7 as stated: the animation never blocks the engine call of an accepted
\* run, so no accepted run waits for its engine call while animationProgress
\* is still below 100.
C7_AnimationNeverBlocksEngineCall ==
    ~(engineCalls < runs /\ animationProgress < ProgressDone)

\* C7 as amended: the engine is called only by an updater of
\* setAnimationProgress that sees prev >= 100, that is, only in a step that
\* processes queued updaters enough of which come after animationProgress has
\* reached 100, and that ends the animation; so the engine call waits for the
\* animation, which itself never reads the computation.
C7_EngineCallWaitsForAnimation ==
    [][engineCalls' # engineCalls =>
          /\ engineCalls' > engineCalls
          /\ pending # <<>> /\ pending' = <<>>
          /\ animationProgress
               + ProgressStep * (Len(pending) - (engineCalls' - engineCalls))
                 >= ProgressDone
          /\ animationProgress' = ProgressDone
          /\ isAnimating /\ ~isAnimating'
          /\ Len(intervals') < Len(intervals)]_vars

\* The engine call of a run was made after its animation reached 100.
C7_Witness ==
    /\ engineCalls = 1
    /\ runs = 1
    /\ ~isAnimating
    /\ animationProgress = ProgressDone
    /\ result # NoResult

\* C8: every accepted run produces one complete result: animationProgress
\* steps 0, 4, ..., 100 and never exceeds 100; the first updater that sees
\* progress >= 100 clears the interval, resets isAnimating, invokes the engine
\* and stores its output in result; the engine is invoked exactly once per
\* accepted run, no later tick of the run invoking it again; and with ticks
\* firing every run in flight eventually ends with its result stored.
C8_OneCompleteResultPerRun ==
    /\ [](animationProgress \in {ProgressStep * i : i \in 0..(ProgressDone \div ProgressStep)})
    /\ [](engineCalls + Len(intervals) = runs)
    /\ [][Render =>
            IF finishing = {}
              THEN /\ engineCalls' = engineCalls
                   /\ result' = result
                   /\ isAnimating' = isAnimating
                   /\ intervals' = intervals
              ELSE /\ intervals' = <<>>
                   /\ ~isAnimating'
                   /\ engineCalls' = engineCalls + 1
                   /\ lastCall' = intervals[1].closure
                   /\ \E seed \in 0..MaxSeed :
                         result' = runMonteCarloSimulation(
                                     lastCall'.taskA, lastCall'.taskB,
                                     lastCall'.availableHours, lastCall'.trials,
                                     seed)]_vars
    /\ (isAnimating ~> (~isAnimating /\ result # NoResult /\ engineCalls >= runs))

\* C9: at most one run is in flight: while the interval of an accepted run
\* exists no second interval is started, and an interval exists exactly while
\* isAnimating, which disables the Run button; updaters are queued only for
\* the interval of the run in flight.
C9_AtMostOneRunInFlight ==
    /\ Len(intervals) <= 1
    /\ (Len(intervals) = 1) <=> isAnimating
    /\ runs - engineCalls <= 1
    /\ \A j \in 1..Len(pending) : intervals = <<pending[j]>>

\* A run started by a Run click is in flight, after the mount-time run ended.
C9_Witness ==
    /\ Len(intervals) = 1
    /\ isAnimating
    /\ runs = 2
    /\ engineCalls >= 1
    /\ animationProgress > 0
    /\ pending # <<>>

\* C10: whenever a result is displayed, the task A and task B ranges shown in
\* the interpretation are the ranges passed to the engine call that produced it.
C10_ShownRangesAreTheRunsRanges ==
    (result # NoResult /\ ~isAnimating) =>
        /\ taskA.minDuration = lastCall.taskA.minDuration
        /\ taskA.maxDuration = lastCall.taskA.maxDuration
        /\ taskB.minDuration = lastCall.taskB.minDuration
        /\ taskB.maxDuration = lastCall.taskB.maxDuration

====
